---- MODULE Spec2Model ----
(***************************************************************************)
(* The region-parallel OCR pipeline of wfm_cli (cli/src/ocr.rs):           *)
(* OCREngine::new spawns 4 worker threads, each with an unbounded inbound  *)
(* channel of crops, all sharing one unbounded outbound channel of         *)
(* (index, item) results; OCREngine::ocr fans 4 crops out and 4 results in.*)
(* The catalogue matcher find_closest_levenshtein_match is modelled as an  *)
(* operator and exercised on its own under SpecMatch.                      *)
(***************************************************************************)
EXTENDS Integers, Sequences, FiniteSets, TLC

VARIABLES
    items,      \* the catalogue handed to OCREngine::new (Arc<RwLock<Vec<ShortItem>>>)
    engine,     \* "live" while the OCREngine handle exists, "dropped" afterwards
    inq,        \* inq[i]: the inbound channel of worker i (FIFO of crops)
    outq,       \* the shared outbound channel (FIFO of results)
    wpc,        \* wpc[i]: where worker thread i stands
    wimg,       \* wimg[i]: <<img>> while worker i holds a crop, else <<>>
    wfile,      \* wfile[i]: <<path>> of the temporary file worker i wrote, else <<>>
    wraw,       \* wraw[i]: <<raw_ocr>> once recognised, else <<>>
    wcause,     \* wcause[i]: the step whose unwrap() killed worker i, "" if alive
    files,      \* the temporary files present in the screenshot directory
    now,        \* unix_timestamp(), in seconds
    cpc,        \* cpc[c]: where caller c stands in OCREngine::ocr
    ci,         \* ci[c]: the loop index of the send loop
    cimg,       \* cimg[c]: <<img>> the screenshot the running (or last) call opened
    cres,       \* cres[c]: the Vec results of the running call
    cret,       \* cret[c]: how the last call of c returned ("none" while running)
    cout,       \* cout[c]: the Vec the last call returned with Ok
    cerr,       \* cerr[c]: history, some earlier call of c returned Err
    ccall,      \* ccall[c]: number of calls c has started (names the call)
    budget,     \* budget[c]: calls c may still start (bounds the model)
    covl,       \* covl[c]: history, the last call of c overlapped another call
    nsent,      \* nsent[i]: history, crops sent on inbound channel i so far
    npub,       \* npub[i]: history, results of index i sent on the outbound channel so far
    target,     \* the arrival order a scheduled run realises (SpecOrder only)
    fc_items,   \* SpecMatch: the catalogue given to the matcher
    fc_target,  \* SpecMatch: the raw string given to the matcher
    fc_out,     \* SpecMatch: what the matcher produced
    fc_pc,      \* SpecMatch: "call" before, "done" / "panic" after the matcher ran
    hc_rgb,     \* SpecColor: the (r, g, b) given to to_hsv
    hc_hsv,     \* SpecColor: <<hsv>> once to_hsv returned, else <<>>
    hc_back,    \* SpecColor: <<(r, g, b)>> once to_rgb returned, else <<>>
    hc_pc,      \* SpecColor: "hsv" before to_hsv, "rgb" before to_rgb, then "done"
    rf_img,     \* SpecFilter: the image the caller holds and lends to remove_not_text
    rf_out,     \* SpecFilter: <<image>> the first call returned, else <<>>
    rf_again,   \* SpecFilter: <<image>> the call on that result returned, else <<>>
    rf_pc       \* SpecFilter: "first", "second", then "done"

vars == <<items, engine, inq, outq, wpc, wimg, wfile, wraw, wcause, files, now,
          cpc, ci, cimg, cres, cret, cout, cerr, ccall, budget, covl, nsent, npub,
          target, fc_items, fc_target, fc_out, fc_pc,
          hc_rgb, hc_hsv, hc_back, hc_pc, rf_img, rf_out, rf_again, rf_pc>>

pipeVars == <<items, engine, inq, outq, wpc, wimg, wfile, wraw, wcause, files, now,
              cpc, ci, cimg, cres, cret, cout, cerr, ccall, budget, covl, nsent, npub,
              target>>

matchVars == <<fc_items, fc_target, fc_out, fc_pc>>

colorVars == <<hc_rgb, hc_hsv, hc_back, hc_pc>>

filterVars == <<rf_img, rf_out, rf_again, rf_pc>>

\* the variables of the pure functions exercised on their own
pureVars == <<matchVars, colorVars, filterVars>>

-----------------------------------------------------------------------------
(* Bounds of the model and constants of the program *)

NumWorkers == 4

INITIAL_LOWEST == 9999

IMG_MAX_WHITE_DEV == 45

MaxCalls == 2

MaxOverlapCalls == 1

MaxOrderCalls == 1

MaxTime == 1

MaxLen == 2

MaxCatalog == 2

ChannelLevels == 4

MaxPixels == 4

Regions == 0 .. (NumWorkers - 1)

Callers == {1, 2}

Alphabet == {"a", "b"}

-----------------------------------------------------------------------------
(* Strings are sequences of characters *)

Min2(x, y) == IF x <= y THEN x ELSE y

Min3(x, y, z) == Min2(x, Min2(y, z))

StringsUpTo(n) == UNION {[1 .. k -> Alphabet] : k \in 0 .. n}

\* levenshtein::levenshtein(a, b): the edit distance in single-character
\* insertions, deletions and substitutions
RECURSIVE levenshtein(_, _)
levenshtein(a, b) ==
    IF Len(a) = 0 THEN Len(b)
    ELSE IF Len(b) = 0 THEN Len(a)
    ELSE IF Head(a) = Head(b) THEN levenshtein(Tail(a), Tail(b))
    ELSE 1 + Min3(levenshtein(Tail(a), b),
                  levenshtein(a, Tail(b)),
                  levenshtein(Tail(a), Tail(b)))

\* Option<&ShortItem>: <<>> is None, <<item>> is Some(item)
None == <<>>

Some(x) == <<x>>

\* `if diff < lowest_levenshtein`
IsLower(diff, lowest) == diff < lowest

\* the body of `for item in items`, from entry k on
RECURSIVE FindLoop(_, _, _, _, _)
FindLoop(its, tgt, k, lowest_levenshtein, lowest_item) ==
    IF k > Len(its) THEN lowest_item
    ELSE LET diff == levenshtein(tgt, its[k].item_name)
         IN  IF IsLower(diff, lowest_levenshtein)
             THEN FindLoop(its, tgt, k + 1, diff, Some(its[k]))
             ELSE FindLoop(its, tgt, k + 1, lowest_levenshtein, lowest_item)

\* find_closest_levenshtein_match up to its final unwrap(): None makes it panic
find_closest_levenshtein_match(its, tgt) ==
    FindLoop(its, tgt, 1, INITIAL_LOWEST, None)

-----------------------------------------------------------------------------
(* f64 values.  A value is the rational n/d (d > 0, in lowest terms) together
   with u, its distance in units in the last place from the double nearest to
   n/d.  The arithmetic is that of the rationals: the rounding of a double
   operation is far smaller than the gap between any two values the program
   compares, except for a hue next to a hue bound.  The bound 0.35 * 360.0 is
   one unit below 126 (u = -1); the pixels drawn here with a hue on a bound
   ((200, 90, 0) at 27, (0, 150, 15) at 126) are pixels whose hue the IEEE
   operations of to_hsv compute without error. *)

Abs(x) == IF x < 0 THEN -x ELSE x

RECURSIVE Gcd(_, _)
Gcd(a, b) == IF b = 0 THEN a ELSE Gcd(b, a % b)

Frac(n, d) ==
    LET g == Gcd(Abs(n), Abs(d))
        sgn == IF d < 0 THEN -1 ELSE 1
    IN  [n |-> (sgn * n) \div g, d |-> (sgn * d) \div g, u |-> 0]

Whole(k) == Frac(k, 1)

Ulps(x, k) == [x EXCEPT !.u = k]

FAdd(a, b) == Frac(a.n * b.d + b.n * a.d, a.d * b.d)

FSub(a, b) == Frac(a.n * b.d - b.n * a.d, a.d * b.d)

FMul(a, b) == Frac(a.n * b.n, a.d * b.d)

FDiv(a, b) == Frac(a.n * b.d, a.d * b.n)

\* a < b and a > b on f64
FLt(a, b) ==
    \/ a.n * b.d < b.n * a.d
    \/ a.n * b.d = b.n * a.d /\ a.u < b.u

FGt(a, b) == FLt(b, a)

FGe(a, b) == ~FLt(a, b)

\* f64::max, f64::min
FMax(a, b) == IF FLt(a, b) THEN b ELSE a

FMin(a, b) == IF FLt(b, a) THEN b ELSE a

\* f64::abs
FAbs(a) == Frac(Abs(a.n), a.d)

\* the integer part of a, towards zero
Trunc(a) == IF a.n >= 0 THEN a.n \div a.d ELSE -((-a.n) \div a.d)

\* a % b on f64: the remainder of the division truncated towards zero
FRem(a, b) == FSub(a, FMul(Whole(Trunc(FDiv(a, b))), b))

\* f64::rem_euclid: the remainder made non-negative
FRemEuclid(a, b) ==
    LET r == FRem(a, b)
    IN  IF FLt(r, Whole(0)) THEN FAdd(r, FAbs(b)) ELSE r

\* f64::round, ties away from zero, then `as u8`, which saturates
RoundU8(a) ==
    LET k == IF a.n >= 0 THEN (2 * a.n + a.d) \div (2 * a.d)
                         ELSE -((2 * (-a.n) + a.d) \div (2 * a.d))
    IN  IF k < 0 THEN 0 ELSE IF k > 255 THEN 255 ELSE k

-----------------------------------------------------------------------------
(* The colour classifier: to_hsv, to_rgb, in_range *)

\* struct Hsv
Hsv(h, s, v) == [h |-> h, s |-> s, v |-> v]

\* a faulty sector: blue-dominant pixels are placed one sector too low
HueSectorLow(r_, g_, b_, cmax, delta) ==
    IF delta = Whole(0) THEN Whole(0)
    ELSE IF cmax = r_ THEN FRem(FDiv(FSub(g_, b_), delta), Whole(6))
    ELSE IF cmax = g_ THEN FAdd(FDiv(FSub(b_, r_), delta), Whole(2))
    ELSE FAdd(FDiv(FSub(r_, g_), delta), Whole(3))

\* the `if delta == 0.0 .. else if cmax == r_ .. else if cmax == g_ .. else ..`
HueSector(r_, g_, b_, cmax, delta) ==
    IF delta = Whole(0) THEN Whole(0)
    ELSE IF cmax = r_ THEN FRem(FDiv(FSub(g_, b_), delta), Whole(6))
    ELSE IF cmax = g_ THEN FAdd(FDiv(FSub(b_, r_), delta), Whole(2))
    ELSE FAdd(FDiv(FSub(r_, g_), delta), Whole(4))

\* to_hsv: `60.0 * if .. { .. } else { .. }.rem_euclid(360.0)` applies
\* rem_euclid(360.0) to the value of the if expression, and multiplies after it
to_hsv(r, g, b) ==
    LET r_ == Frac(r, 255)
        g_ == Frac(g, 255)
        b_ == Frac(b, 255)
        cmax == FMax(r_, FMax(g_, b_))
        cmin == FMin(r_, FMin(g_, b_))
        delta == FSub(cmax, cmin)
        hue == FMul(Whole(60),
                    FRemEuclid(HueSector(r_, g_, b_, cmax, delta), Whole(360)))
        sat == IF cmax = Whole(0) THEN Whole(0) ELSE FDiv(delta, cmax)
        value == cmax
    IN  Hsv(hue, sat, value)

\* a faulty match: every hue is answered with the arm of the first sector
SectorRgbFirst(h, c, x) == <<c, x, Whole(0)>>

\* the `match h { .. }` of to_rgb
SectorRgb(h, c, x) ==
    IF FGe(h, Whole(0)) /\ FLt(h, Whole(60)) THEN <<c, x, Whole(0)>>
    ELSE IF FGe(h, Whole(60)) /\ FLt(h, Whole(120)) THEN <<x, c, Whole(0)>>
    ELSE IF FGe(h, Whole(120)) /\ FLt(h, Whole(180)) THEN <<Whole(0), c, x>>
    ELSE IF FGe(h, Whole(180)) /\ FLt(h, Whole(240)) THEN <<Whole(0), x, c>>
    ELSE IF FGe(h, Whole(240)) /\ FLt(h, Whole(300)) THEN <<x, Whole(0), c>>
    ELSE <<c, Whole(0), x>>

to_rgb(h, s, v) ==
    LET c == FMul(v, s)
        x == FMul(c, FSub(Whole(1),
                          FAbs(FSub(FRemEuclid(FDiv(h, Whole(60)), Whole(2)), Whole(1)))))
        m == FSub(v, c)
        rgb_ == SectorRgb(h, c, x)
    IN  <<RoundU8(FMul(FAdd(rgb_[1], m), Whole(255))),
          RoundU8(FMul(FAdd(rgb_[2], m), Whole(255))),
          RoundU8(FMul(FAdd(rgb_[3], m), Whole(255)))>>

\* a faulty test: a component on a bound is out of range
in_rangeOpen(color, lower, upper) ==
    IF ~FGt(color.h, lower[1]) \/ ~FLt(color.h, upper[1]) THEN FALSE
    ELSE IF ~FGt(color.s, lower[2]) \/ ~FLt(color.s, upper[2]) THEN FALSE
    ELSE IF ~FGt(color.v, lower[3]) \/ ~FLt(color.v, upper[3]) THEN FALSE
    ELSE TRUE

in_range(color, lower, upper) ==
    IF FLt(color.h, lower[1]) \/ FGt(color.h, upper[1]) THEN FALSE
    ELSE IF FLt(color.s, lower[2]) \/ FGt(color.s, upper[2]) THEN FALSE
    ELSE IF FLt(color.v, lower[3]) \/ FGt(color.v, upper[3]) THEN FALSE
    ELSE TRUE

-----------------------------------------------------------------------------
(* The region filter: remove_not_text on an RGBA bitmap *)

\* (0.075 * 360.0, 0.111, 0.416): the product is the double 27.0
LowerBound == <<Whole(27), Frac(111, 1000), Frac(416, 1000)>>

\* (0.35 * 360.0, 1.0, 1.0): the product is the double just below 126
UpperBound == <<Ulps(Whole(126), -1), Whole(1), Whole(1)>>

\* Pixel::from_channels(0, 0, 0, 255)
Black == <<0, 0, 0, 255>>

\* a faulty filter: the pixel kept is written with its channels in the order b, g, r
FilterPixelBgr(color) ==
    IF ~in_range(to_hsv(color[1], color[2], color[3]), LowerBound, UpperBound)
    THEN Black
    ELSE <<color[3], color[2], color[1], color[4]>>

\* the body of `for pix in img.pixels()`: what put_pixel writes at the position
FilterPixel(color) ==
    IF ~in_range(to_hsv(color[1], color[2], color[3]), LowerBound, UpperBound)
    THEN Black
    ELSE color

\* a bitmap: its dimensions and the Rgba<u8> at every (x, y)
Image(w, h, px) == [w |-> w, h |-> h, px |-> px]

\* remove_not_text(&img, max_dev): a clone of img in which every position has
\* been overwritten from the pixel img has there; max_dev is not used
remove_not_text(img, max_dev) ==
    Image(img.w, img.h, [p \in DOMAIN img.px |-> FilterPixel(img.px[p])])

-----------------------------------------------------------------------------
(* The data of the pipeline *)

\* ShortItem, by its id and item_name
Item(k, name) == [id |-> k, item_name |-> name]

Catalog == <<Item(1, <<"a">>), Item(2, <<"b">>)>>

\* the catalogues OCREngine::new may be given: it takes any Vec<ShortItem>
PipeCatalogs == {<<>>, Catalog}

\* what a decodable screenshot shows in each of the 4 regions
Screens == { [r \in Regions |-> IF r % 2 = 0 THEN <<"a">> ELSE <<"b">>] }

\* the name of a call: the caller and the number of its call
CallId(c) == <<c, ccall[c]>>

\* a faulty crop: the coordinates of region 0 are used for every region
crop_immFirst(img, i) ==
    [call |-> img.call, region |-> 0, text |-> img.text[0], background |-> TRUE]

\* img.crop_imm(ITEM_CROP_COORDS[i], ITEM_CROP_SIZE): region i of the screenshot,
\* text and background art
crop_imm(img, i) ==
    [call |-> img.call, region |-> i, text |-> img.text[i], background |-> TRUE]

\* remove_not_text as the worker uses it: the background is blacked out, the
\* text-coloured pixels are kept
RemoveNotTextCrop(img) == [img EXCEPT !.background = FALSE]

\* ts.set_image(path).recognize().get_text(): the external engine returns the
\* text of the image as a noisy string, here with the line break it ends a line with
get_text(img) == Append(img.text, "\n")

\* the (usize, ShortItem) a worker sends; src records the crop it came from
Result(i, closest, img) ==
    [idx |-> i, item |-> closest, src |-> <<img.call, img.region>>]

Active(c) == cpc[c] \in {"send", "recv"}

Dead(i) == wpc[i] = "dead"

-----------------------------------------------------------------------------
(* The worker thread i of OCREngine::new *)

\* an unwrap() panics: the thread unwinds, dropping its Receiver (the queued
\* crops go with the channel), its clone of the outbound Sender and its locals
Panic(i, cause) ==
    /\ wpc' = [wpc EXCEPT ![i] = "dead"]
    /\ wcause' = [wcause EXCEPT ![i] = cause]
    /\ inq' = [inq EXCEPT ![i] = <<>>]
    /\ wimg' = [wimg EXCEPT ![i] = <<>>]
    /\ wfile' = [wfile EXCEPT ![i] = <<>>]
    /\ wraw' = [wraw EXCEPT ![i] = <<>>]

\* home_dir(), Tesseract::new_with_oem, set_variable succeed: the loop is entered
WorkerStart(i) ==
    /\ wpc[i] = "start"
    /\ wpc' = [wpc EXCEPT ![i] = "idle"]
    /\ UNCHANGED <<items, engine, inq, outq, wimg, wfile, wraw, wcause, files, now,
                   cpc, ci, cimg, cres, cret, cout, cerr, ccall, budget, covl, target, nsent, npub>>
    /\ UNCHANGED pureVars

WorkerStartFail(i) ==
    /\ wpc[i] = "start"
    /\ Panic(i, "start")
    /\ UNCHANGED <<items, engine, outq, files, now,
                   cpc, ci, cimg, cres, cret, cout, cerr, ccall, budget, covl, target, nsent, npub>>
    /\ UNCHANGED pureVars

\* a faulty receive: the crop is taken but stays at the head of the queue
WorkerRecvPeek(i) ==
    /\ wpc[i] = "idle"
    /\ inq[i] # <<>>
    /\ wimg' = [wimg EXCEPT ![i] = <<RemoveNotTextCrop(Head(inq[i]))>>]
    /\ wpc' = [wpc EXCEPT ![i] = "persist"]
    /\ UNCHANGED <<items, engine, inq, outq, wfile, wraw, wcause, files, now,
                   cpc, ci, cimg, cres, cret, cout, cerr, ccall, budget, covl, target, nsent, npub>>
    /\ UNCHANGED pureVars

\* rx.recv() returns Ok(img); img = remove_not_text(&img, ..)
WorkerRecv(i) ==
    /\ wpc[i] = "idle"
    /\ inq[i] # <<>>
    /\ wimg' = [wimg EXCEPT ![i] = <<RemoveNotTextCrop(Head(inq[i]))>>]
    /\ inq' = [inq EXCEPT ![i] = Tail(inq[i])]
    /\ wpc' = [wpc EXCEPT ![i] = "persist"]
    /\ UNCHANGED <<items, engine, outq, wfile, wraw, wcause, files, now,
                   cpc, ci, cimg, cres, cret, cout, cerr, ccall, budget, covl, target, nsent, npub>>
    /\ UNCHANGED pureVars

\* rx.recv() returns Err (empty and every Sender dropped): eprintln!, continue
WorkerRecvErr(i) ==
    /\ wpc[i] = "idle"
    /\ inq[i] = <<>>
    /\ engine = "dropped"
    /\ UNCHANGED pipeVars
    /\ UNCHANGED pureVars

\* the decimal digits `{}` formats an unsigned integer with
Digit(d) == <<"0", "1", "2", "3", "4", "5", "6", "7", "8", "9">>[d + 1]

RECURSIVE Decimal(_)
Decimal(n) == IF n < 10 THEN <<Digit(n)>> ELSE Append(Decimal(n \div 10), Digit(n % 10))

\* a faulty file name: the timestamp alone, without the index of the worker
FormatImgPathShared(ts, idx) == Decimal(ts) \o <<".", "p", "n", "g">>

\* format!("{}_{}.png", unix_timestamp().unwrap(), idx), the file name under
\* the screenshot directory every worker writes to
FormatImgPath(ts, idx) ==
    Decimal(ts) \o <<"_">> \o Decimal(idx) \o <<".", "p", "n", "g">>

\* img_path = screenshot_path/{unix_timestamp()}_{idx}.png; img.save(&img_path)
WorkerPersist(i) ==
    /\ wpc[i] = "persist"
    /\ LET img_path == FormatImgPath(now, i)
       IN  /\ files' = files \cup {img_path}
           /\ wfile' = [wfile EXCEPT ![i] = <<img_path>>]
    /\ wpc' = [wpc EXCEPT ![i] = "recognize"]
    /\ UNCHANGED <<items, engine, inq, outq, wimg, wraw, wcause, now,
                   cpc, ci, cimg, cres, cret, cout, cerr, ccall, budget, covl, target, nsent, npub>>
    /\ UNCHANGED pureVars

WorkerPersistFail(i) ==
    /\ wpc[i] = "persist"
    /\ Panic(i, "persist")
    /\ UNCHANGED <<items, engine, outq, files, now,
                   cpc, ci, cimg, cres, cret, cout, cerr, ccall, budget, covl, target, nsent, npub>>
    /\ UNCHANGED pureVars

\* ts.set_image(&img_path_str).unwrap().recognize().unwrap(); ts.get_text().unwrap()
WorkerRecognize(i) ==
    /\ wpc[i] = "recognize"
    /\ wfile[i][1] \in files
    /\ LET raw_ocr == get_text(wimg[i][1])
       IN  wraw' = [wraw EXCEPT ![i] = <<raw_ocr>>]
    /\ wpc' = [wpc EXCEPT ![i] = "cleanup"]
    /\ UNCHANGED <<items, engine, inq, outq, wimg, wfile, wcause, files, now,
                   cpc, ci, cimg, cres, cret, cout, cerr, ccall, budget, covl, target, nsent, npub>>
    /\ UNCHANGED pureVars

WorkerRecognizeFail(i) ==
    /\ wpc[i] = "recognize"
    /\ Panic(i, "recognize")
    /\ UNCHANGED <<items, engine, outq, files, now,
                   cpc, ci, cimg, cres, cret, cout, cerr, ccall, budget, covl, target, nsent, npub>>
    /\ UNCHANGED pureVars

\* a faulty cleanup: the worker goes on to the match and leaves the file
WorkerCleanupKeep(i) ==
    /\ wpc[i] = "cleanup"
    /\ wfile[i][1] \in files
    /\ wfile' = [wfile EXCEPT ![i] = <<>>]
    /\ wpc' = [wpc EXCEPT ![i] = "publish"]
    /\ UNCHANGED <<items, engine, inq, outq, wimg, wraw, wcause, files, now,
                   cpc, ci, cimg, cres, cret, cout, cerr, ccall, budget, covl, target, nsent, npub>>
    /\ UNCHANGED pureVars

\* fs::remove_file(img_path)
WorkerCleanup(i) ==
    /\ wpc[i] = "cleanup"
    /\ wfile[i][1] \in files
    /\ files' = files \ {wfile[i][1]}
    /\ wfile' = [wfile EXCEPT ![i] = <<>>]
    /\ wpc' = [wpc EXCEPT ![i] = "publish"]
    /\ UNCHANGED <<items, engine, inq, outq, wimg, wraw, wcause, now,
                   cpc, ci, cimg, cres, cret, cout, cerr, ccall, budget, covl, target, nsent, npub>>
    /\ UNCHANGED pureVars

WorkerCleanupFail(i) ==
    /\ wpc[i] = "cleanup"
    /\ Panic(i, "cleanup")
    /\ UNCHANGED <<items, engine, outq, files, now,
                   cpc, ci, cimg, cres, cret, cout, cerr, ccall, budget, covl, target, nsent, npub>>
    /\ UNCHANGED pureVars

\* a faulty tag: every worker sends index 0 instead of its own
ResultIndexShared(i) == 0

\* the index a worker tags its result with: `tx.send((i, closest))`
ResultIndex(i) == i

\* a faulty publish: the worker goes back to its receive without sending
WorkerPublishDrop(i) ==
    /\ wpc[i] = "publish"
    /\ engine = "live"
    /\ find_closest_levenshtein_match(items, wraw[i][1]) # None
    /\ wpc' = [wpc EXCEPT ![i] = "idle"]
    /\ wimg' = [wimg EXCEPT ![i] = <<>>]
    /\ wraw' = [wraw EXCEPT ![i] = <<>>]
    /\ UNCHANGED <<items, engine, inq, outq, wfile, wcause, files, now,
                   cpc, ci, cimg, cres, cret, cout, cerr, ccall, budget, covl, target, nsent, npub>>
    /\ UNCHANGED pureVars

\* closest = find_closest_levenshtein_match(&items.read().unwrap(), &raw_ocr);
\* tx.send((i, closest)).unwrap(); back to rx.recv()
WorkerPublish(i) ==
    /\ wpc[i] = "publish"
    /\ engine = "live"
    /\ LET lowest_item == find_closest_levenshtein_match(items, wraw[i][1])
       IN  /\ lowest_item # None
           /\ outq' = Append(outq, Result(ResultIndex(i), lowest_item[1], wimg[i][1]))
    /\ npub' = [npub EXCEPT ![ResultIndex(i)] = @ + 1]
    /\ wpc' = [wpc EXCEPT ![i] = "idle"]
    /\ wimg' = [wimg EXCEPT ![i] = <<>>]
    /\ wraw' = [wraw EXCEPT ![i] = <<>>]
    /\ UNCHANGED <<items, engine, inq, wfile, wcause, files, now,
                   cpc, ci, cimg, cres, cret, cout, cerr, ccall, budget, covl, target, nsent>>
    /\ UNCHANGED pureVars

\* lowest_item.unwrap() on None: the matcher panics inside the worker
WorkerMatchFail(i) ==
    /\ wpc[i] = "publish"
    /\ find_closest_levenshtein_match(items, wraw[i][1]) = None
    /\ Panic(i, "match")
    /\ UNCHANGED <<items, engine, outq, files, now,
                   cpc, ci, cimg, cres, cret, cout, cerr, ccall, budget, covl, target, nsent, npub>>
    /\ UNCHANGED pureVars

\* tx.send(..).unwrap() with the Receiver dropped
WorkerPublishFail(i) ==
    /\ wpc[i] = "publish"
    /\ find_closest_levenshtein_match(items, wraw[i][1]) # None
    /\ engine = "dropped"
    /\ Panic(i, "publish")
    /\ UNCHANGED <<items, engine, outq, files, now,
                   cpc, ci, cimg, cres, cret, cout, cerr, ccall, budget, covl, target, nsent, npub>>
    /\ UNCHANGED pureVars

-----------------------------------------------------------------------------
(* OCREngine::ocr, run by caller c *)

\* a faulty fan-in: the loop stops one result short
FanInCountShort == NumWorkers - 1

\* `for _ in 0..4` of the fan-in loop
FanInCount == 4

\* the list rs with r inserted before the first entry of a larger index
RECURSIVE InsertByIndex(_, _)
InsertByIndex(rs, r) ==
    IF rs = <<>> THEN <<r>>
    ELSE IF r.idx < Head(rs).idx THEN <<r>> \o rs
    ELSE <<Head(rs)>> \o InsertByIndex(Tail(rs), r)

RECURSIVE SortByIndex(_)
SortByIndex(rs) ==
    IF rs = <<>> THEN <<>>
    ELSE InsertByIndex(SortByIndex(SubSeq(rs, 1, Len(rs) - 1)), rs[Len(rs)])

\* a faulty return: the Vec is sorted by region index first
OcrResultsSorted(results) == SortByIndex(results)

\* `Ok(results)`: the Vec as collected
OcrResults(results) == results

\* the bookkeeping of a return: the call is over and its Vec is handed out or dropped
Return(c, how, out) ==
    /\ cpc' = [cpc EXCEPT ![c] = "idle"]
    /\ cret' = [cret EXCEPT ![c] = how]
    /\ cout' = [cout EXCEPT ![c] = out]
    /\ cerr' = [cerr EXCEPT ![c] = @ \/ (how # "ok")]
    /\ cres' = [cres EXCEPT ![c] = <<>>]
    /\ ci' = [ci EXCEPT ![c] = 0]

\* a call starts and image::open(path)? succeeds
OcrOpen(c) ==
    /\ cpc[c] = "idle"
    /\ engine = "live"
    /\ budget[c] > 0
    /\ budget' = [budget EXCEPT ![c] = @ - 1]
    /\ ccall' = [ccall EXCEPT ![c] = @ + 1]
    /\ \E screen \in Screens :
           cimg' = [cimg EXCEPT ![c] = <<[call |-> <<c, ccall[c] + 1>>, text |-> screen]>>]
    /\ cpc' = [cpc EXCEPT ![c] = "send"]
    /\ ci' = [ci EXCEPT ![c] = 0]
    /\ cres' = [cres EXCEPT ![c] = <<>>]
    /\ cret' = [cret EXCEPT ![c] = "none"]
    /\ cout' = [cout EXCEPT ![c] = <<>>]
    /\ covl' = IF \E d \in Callers \ {c} : Active(d)
               THEN [d \in Callers |-> (d = c) \/ Active(d) \/ covl[d]]
               ELSE [covl EXCEPT ![c] = FALSE]
    /\ UNCHANGED <<items, engine, inq, outq, wpc, wimg, wfile, wraw, wcause, files,
                   now, cerr, target, nsent, npub>>
    /\ UNCHANGED pureVars

\* a faulty failure: a blank crop reaches worker 0 before the decode error is returned
OcrOpenFailLate(c) ==
    /\ cpc[c] = "idle"
    /\ engine = "live"
    /\ budget[c] > 0
    /\ budget' = [budget EXCEPT ![c] = @ - 1]
    /\ ccall' = [ccall EXCEPT ![c] = @ + 1]
    /\ cret' = [cret EXCEPT ![c] = "err_open"]
    /\ cout' = [cout EXCEPT ![c] = <<>>]
    /\ cerr' = [cerr EXCEPT ![c] = TRUE]
    /\ covl' = [covl EXCEPT ![c] = FALSE]
    /\ inq' = [inq EXCEPT ![0] =
                  IF Dead(0) THEN @
                  ELSE Append(@, [call |-> <<c, ccall[c] + 1>>, region |-> 0,
                                  text |-> <<>>, background |-> TRUE])]
    /\ nsent' = [nsent EXCEPT ![0] = IF Dead(0) THEN @ ELSE @ + 1]
    /\ npub' = npub
    /\ UNCHANGED <<items, engine, outq, wpc, wimg, wfile, wraw, wcause, files,
                   now, cpc, ci, cimg, cres, target>>
    /\ UNCHANGED pureVars

\* a call starts and image::open(path)? fails: Err before anything is sent
OcrOpenFail(c) ==
    /\ cpc[c] = "idle"
    /\ engine = "live"
    /\ budget[c] > 0
    /\ budget' = [budget EXCEPT ![c] = @ - 1]
    /\ ccall' = [ccall EXCEPT ![c] = @ + 1]
    /\ cret' = [cret EXCEPT ![c] = "err_open"]
    /\ cout' = [cout EXCEPT ![c] = <<>>]
    /\ cerr' = [cerr EXCEPT ![c] = TRUE]
    /\ covl' = [covl EXCEPT ![c] = FALSE]
    /\ UNCHANGED <<items, engine, inq, outq, wpc, wimg, wfile, wraw, wcause, files,
                   now, cpc, ci, cimg, cres, target, nsent, npub>>
    /\ UNCHANGED pureVars

\* self.tx[i].send(cropped)? succeeds: the Receiver of channel i is alive
OcrSend(c) ==
    /\ cpc[c] = "send"
    /\ ~Dead(ci[c])
    /\ inq' = [inq EXCEPT ![ci[c]] = Append(@, crop_imm(cimg[c][1], ci[c]))]
    /\ ci' = [ci EXCEPT ![c] = @ + 1]
    /\ cpc' = [cpc EXCEPT ![c] = IF ci[c] + 1 = NumWorkers THEN "recv" ELSE "send"]
    /\ nsent' = [nsent EXCEPT ![ci[c]] = @ + 1]
    /\ UNCHANGED <<items, engine, outq, wpc, wimg, wfile, wraw, wcause, files, now,
                   cimg, cres, cret, cout, cerr, ccall, budget, covl, target, npub>>
    /\ UNCHANGED pureVars

\* self.tx[i].send(cropped)? fails: worker i has dropped its Receiver
OcrSendFail(c) ==
    /\ cpc[c] = "send"
    /\ Dead(ci[c])
    /\ Return(c, "err_send", <<>>)
    /\ UNCHANGED <<items, engine, inq, outq, wpc, wimg, wfile, wraw, wcause, files,
                   now, cimg, ccall, budget, covl, target, nsent, npub>>
    /\ UNCHANGED pureVars

\* results.push(self.rx.recv()?) with a message queued; after the last one, Ok(results)
OcrRecv(c) ==
    /\ cpc[c] = "recv"
    /\ outq # <<>>
    /\ outq' = Tail(outq)
    /\ LET results == Append(cres[c], Head(outq))
       IN  IF Len(results) = FanInCount
           THEN Return(c, "ok", OcrResults(results))
           ELSE /\ cres' = [cres EXCEPT ![c] = results]
                /\ UNCHANGED <<cpc, cret, cout, cerr, ci>>
    /\ UNCHANGED <<items, engine, inq, wpc, wimg, wfile, wraw, wcause, files, now,
                   cimg, ccall, budget, covl, target, nsent, npub>>
    /\ UNCHANGED pureVars

\* self.rx.recv()? fails: the queue is empty and every Sender (one per worker
\* thread) has been dropped
OcrRecvFail(c) ==
    /\ cpc[c] = "recv"
    /\ outq = <<>>
    /\ \A i \in Regions : Dead(i)
    /\ Return(c, "err_recv", <<>>)
    /\ UNCHANGED <<items, engine, inq, outq, wpc, wimg, wfile, wraw, wcause, files,
                   now, cimg, ccall, budget, covl, target, nsent, npub>>
    /\ UNCHANGED pureVars

\* the OCREngine is dropped (no call borrows it): the 4 inbound Senders and the
\* outbound Receiver go, and with the Receiver the results still queued
DropEngine ==
    /\ engine = "live"
    /\ \A c \in Callers : cpc[c] = "idle"
    /\ engine' = "dropped"
    /\ outq' = <<>>
    /\ UNCHANGED <<items, inq, wpc, wimg, wfile, wraw, wcause, files, now,
                   cpc, ci, cimg, cres, cret, cout, cerr, ccall, budget, covl, target, nsent, npub>>
    /\ UNCHANGED pureVars

\* a second passes
Tick ==
    /\ now < MaxTime
    /\ now' = now + 1
    /\ UNCHANGED <<items, engine, inq, outq, wpc, wimg, wfile, wraw, wcause, files,
                   cpc, ci, cimg, cres, cret, cout, cerr, ccall, budget, covl, target, nsent, npub>>
    /\ UNCHANGED pureVars

-----------------------------------------------------------------------------
(* The pipeline in sequential use: one caller, any catalogue, any failure *)

Identity == [k \in 1 .. NumWorkers |-> k - 1]

InitPipe(cats, calls) ==
    /\ items \in cats
    /\ engine = "live"
    /\ inq = [i \in Regions |-> <<>>]
    /\ outq = <<>>
    /\ wpc = [i \in Regions |-> "start"]
    /\ wimg = [i \in Regions |-> <<>>]
    /\ wfile = [i \in Regions |-> <<>>]
    /\ wraw = [i \in Regions |-> <<>>]
    /\ wcause = [i \in Regions |-> ""]
    /\ files = {}
    /\ now = 0
    /\ cpc = [c \in Callers |-> "idle"]
    /\ ci = [c \in Callers |-> 0]
    /\ cimg = [c \in Callers |-> <<>>]
    /\ cres = [c \in Callers |-> <<>>]
    /\ cret = [c \in Callers |-> "none"]
    /\ cout = [c \in Callers |-> <<>>]
    /\ cerr = [c \in Callers |-> FALSE]
    /\ ccall = [c \in Callers |-> 0]
    /\ budget = calls
    /\ covl = [c \in Callers |-> FALSE]
    /\ nsent = [i \in Regions |-> 0]
    /\ npub = [i \in Regions |-> 0]

MatchIdle ==
    /\ fc_items = <<>>
    /\ fc_target = <<>>
    /\ fc_out = None
    /\ fc_pc = "off"

ColorIdle ==
    /\ hc_rgb = <<0, 0, 0>>
    /\ hc_hsv = <<>>
    /\ hc_back = <<>>
    /\ hc_pc = "off"

FilterIdle ==
    /\ rf_img = <<>>
    /\ rf_out = <<>>
    /\ rf_again = <<>>
    /\ rf_pc = "off"

Init ==
    /\ InitPipe(PipeCatalogs, [c \in Callers |-> IF c = 1 THEN MaxCalls ELSE 0])
    /\ target = Identity
    /\ MatchIdle
    /\ ColorIdle
    /\ FilterIdle

Next ==
    \/ \E c \in Callers : OcrOpen(c)
    \/ \E c \in Callers : OcrOpenFail(c)
    \/ \E c \in Callers : OcrSend(c)
    \/ \E c \in Callers : OcrSendFail(c)
    \/ \E c \in Callers : OcrRecv(c)
    \/ \E c \in Callers : OcrRecvFail(c)
    \/ \E i \in Regions : WorkerStart(i)
    \/ \E i \in Regions : WorkerStartFail(i)
    \/ \E i \in Regions : WorkerRecv(i)
    \/ \E i \in Regions : WorkerRecvErr(i)
    \/ \E i \in Regions : WorkerPersist(i)
    \/ \E i \in Regions : WorkerPersistFail(i)
    \/ \E i \in Regions : WorkerRecognize(i)
    \/ \E i \in Regions : WorkerRecognizeFail(i)
    \/ \E i \in Regions : WorkerCleanup(i)
    \/ \E i \in Regions : WorkerCleanupFail(i)
    \/ \E i \in Regions : WorkerPublish(i)
    \/ \E i \in Regions : WorkerMatchFail(i)
    \/ \E i \in Regions : WorkerPublishFail(i)
    \/ DropEngine
    \/ Tick

Spec == Init /\ [][Next]_vars

-----------------------------------------------------------------------------
(* Properties of the pipeline in sequential use *)

\* the result worker i computes from crop i of the call whose screenshot is img
OwnResult(img, i) ==
    [idx |-> i,
     item |-> find_closest_levenshtein_match(items, Append(img.text[i], "\n")),
     src |-> <<img.call, i>>]

\* the Vec out is a 4-element list, one entry per region, each the own result of
\* the call of c that just returned
OwnFour(c, out) ==
    /\ Len(out) = NumWorkers
    /\ \A i \in Regions : Cardinality({k \in 1 .. Len(out) : out[k].idx = i}) = 1
    /\ \A k \in 1 .. Len(out) :
           LET own == OwnResult(cimg[c][1], out[k].idx)
           IN  /\ out[k].src = own.src
               /\ own.item = Some(out[k].item)

\* C1: with one caller issuing calls one at a time, every call that returns Ok
\* returns exactly 4 (index, item) pairs, the indices being 0,1,2,3 each once, and
\* the item paired with index i is the catalogue match worker i computed from crop
\* i of that same call, whatever calls (failed ones included) came before.
C1_OkReturnsOwnFour ==
    \A c \in Callers : cret[c] = "ok" => OwnFour(c, cout[c])

\* a second call has returned Ok after the first call of the caller returned Err
C1_Witness ==
    \E c \in Callers : cret[c] = "ok" /\ cerr[c] /\ ccall[c] = 2 /\ OwnFour(c, cout[c])

\* crop i of the running call of c is lost: worker i is dead and no result for
\* that crop is queued or collected
Lost(c, i) ==
    /\ Dead(i)
    /\ \A k \in 1 .. Len(outq) : outq[k].src # <<CallId(c), i>>
    /\ \A k \in 1 .. Len(cres[c]) : cres[c][k].src # <<CallId(c), i>>

\* c waits in the fan-in for a crop that is lost while another worker thread
\* (a holder of the outbound Sender) is alive
Starved(c) ==
    /\ cpc[c] = "recv"
    /\ \E i \in Regions : Lost(c, i) /\ \E j \in Regions \ {i} : ~Dead(j)

\* C3: a call never returns Ok with fewer than 4 results, and there is no timeout:
\* while a worker that will never publish the result of its crop leaves the call
\* waiting and another holder of the outbound sender is alive, no step takes the
\* call out of its fan-in receive (no partial list, no error).
C3_NoPartialNoTimeout ==
    /\ [](\A c \in Callers : cret[c] = "ok" => Len(cout[c]) = NumWorkers)
    /\ [][\A c \in Callers : Starved(c) => cpc'[c] = "recv"]_vars

\* the call holds the 3 results there will ever be and is blocked in the receive
C3_Witness ==
    \E c \in Callers : Starved(c) /\ Len(cres[c]) = NumWorkers - 1 /\ outq = <<>>

\* exactly one worker is dead, killed by its recognition step
OneRecognizeFailure ==
    \E i \in Regions : /\ wcause[i] = "recognize"
                       /\ \A j \in Regions \ {i} : ~Dead(j)

\* nothing is left that could produce a result: every living worker waits on an
\* empty inbound queue and the outbound queue is empty
Quiescent ==
    /\ outq = <<>>
    /\ \A j \in Regions : Dead(j) \/ (wpc[j] = "idle" /\ inq[j] = <<>>)

\* C4: when the recognition step of exactly one worker fails during a call, the
\* call terminates with the other 3 results and a partial-result signal: it is
\* never left blocked in its receive with those 3 results and nothing more to come.
C4_OneFailureTerminates ==
    \A c \in Callers :
        ~(OneRecognizeFailure /\ Quiescent /\ cpc[c] = "recv"
          /\ Len(cres[c]) = NumWorkers - 1)

\* the running call of c still needs a result of worker i
DependsOn(c, i) ==
    /\ Active(c)
    /\ \A k \in 1 .. Len(cres[c]) : cres[c][k].src # <<CallId(c), i>>

\* C5: a call that depends on a terminated worker gets a ChannelError at once,
\* at its send or at its receive: it is never blocked in the fan-in receive (the
\* outbound queue empty) while a worker it depends on is dead.
C5_DeadWorkerSurfaces ==
    \A c \in Callers :
        ~(cpc[c] = "recv" /\ outq = <<>> /\ \E i \in Regions : Dead(i) /\ DependsOn(c, i))

\* C6: a call on a screenshot that cannot be decoded returns Err before it sends
\* anything: the step leaves every inbound queue, the outbound queue, every worker
\* and the files as they were, and the caller where it was, so a later call starts
\* from the state it would have started from without the failed call.
C6_OpenFailureLeavesPipeline ==
    [][\A c \in Callers :
          (ccall'[c] # ccall[c] /\ cret'[c] = "err_open")
              => UNCHANGED <<items, engine, inq, outq, wpc, wimg, wfile, wraw,
                             wcause, files, cpc, ci, cres, cimg>>]_vars

\* a call on a valid screenshot returned Ok with its own 4 results right after a
\* call that failed to decode, the workers being idle again
C6_Witness ==
    \E c \in Callers :
        /\ cret[c] = "ok" /\ cerr[c] /\ OwnFour(c, cout[c])
        /\ \A i \in Regions : wpc[i] = "idle" /\ inq[i] = <<>>
        /\ outq = <<>>

\* C10: an empty catalogue is rejected when the engine is constructed: no worker
\* ever accepts a crop with an empty catalogue, and the matcher on an empty
\* catalogue does not terminate the worker.
C10_EmptyCatalogRejected ==
    \A i \in Regions : items = <<>> => (wimg[i] = <<>> /\ wcause[i] # "match")

\* a failure of a step of the loop body: file write, recognition, file delete
StepFailures == {"persist", "recognize", "cleanup"}

\* C15: exactly 4 workers exist for as long as the process runs: a failure of a
\* worker step (temporary file write, recognition call, temporary file delete)
\* aborts the whole process, so no state is reached in which a worker has been
\* terminated by such a failure while the process is still running, its caller
\* blocked in recognize for example.
C15_StepFailureAbortsProcess ==
    \A i \in Regions : wcause[i] \in StepFailures => \A c \in Callers : cpc[c] # "recv"

\* the steps of the loop body as the positions of the worker: a step leads to
\* the next position, the publish back to the receive, a failure to the end
NextPosition(pos) ==
    CASE pos = "start" -> {"idle", "dead"}
      [] pos = "idle" -> {"persist"}
      [] pos = "persist" -> {"recognize", "dead"}
      [] pos = "recognize" -> {"cleanup", "dead"}
      [] pos = "cleanup" -> {"publish", "dead"}
      [] pos = "publish" -> {"idle", "dead"}
      [] pos = "dead" -> {}

\* the temporary files of worker i on disk
FilesOf(i) == {f \in files : \E ts \in 0 .. MaxTime : f = FormatImgPath(ts, i)}

\* C16: a worker handles a crop in the order receive, filter, persist, recognize,
\* delete, match, publish, and receives the next crop only after publishing; so a
\* worker has at most one temporary file on disk at any time, the temporary file
\* of a crop is gone when the result of the crop is published, and no worker
\* temporary file remains when a call has returned Ok in sequential use.
C16_StepOrderAndTempFiles ==
    /\ [][\A i \in Regions : wpc'[i] # wpc[i] => wpc'[i] \in NextPosition(wpc[i])]_vars
    /\ [][\A i \in Regions : inq'[i] # inq[i] /\ Len(inq'[i]) < Len(inq[i]) /\ ~Dead(i)'
             => wpc[i] = "idle" /\ wimg'[i] = <<RemoveNotTextCrop(Head(inq[i]))>>]_vars
    /\ [](\A i \in Regions :
            /\ wpc[i] \in {"persist", "recognize", "cleanup", "publish"}
                   => wimg[i] # <<>> /\ ~wimg[i][1].background
            /\ wpc[i] \in {"recognize", "cleanup"} => FilesOf(i) = {wfile[i][1]}
            /\ wpc[i] \in {"idle", "persist", "publish"} => FilesOf(i) = {}
            /\ wpc[i] \in {"cleanup", "publish"} <=> wraw[i] # <<>>
            /\ Cardinality(FilesOf(i)) <= 1)
    /\ [][\A k \in 1 .. Len(outq') : k > Len(outq) =>
             LET i == outq'[k].idx
             IN  wpc[i] = "publish" /\ FilesOf(i) = {} /\ wpc'[i] = "idle"]_vars
    /\ [](\A c \in Callers : cret[c] = "ok" => files = {})

\* a worker is publishing, its file gone, while another still has its file on disk
C16_Witness ==
    \E i, j \in Regions :
        /\ wpc[i] = "publish" /\ FilesOf(i) = {}
        /\ wpc[j] = "recognize" /\ FilesOf(j) # {}

\* C17: in every interleaving of the 4 workers no two workers have a temporary
\* file of the same path on disk at the same moment: the name is the timestamp
\* followed by the index of the worker, so two workers that read the same
\* timestamp use different paths, and no worker deletes or overwrites a file
\* written by another worker.
C17_NoPathCollision ==
    /\ [](\A i, j \in Regions :
            (i # j /\ wfile[i] # <<>> /\ wfile[j] # <<>>) => wfile[i][1] # wfile[j][1])
    /\ [](\A i, j \in Regions : \A t1, t2 \in 0 .. MaxTime :
            i # j => FormatImgPath(t1, i) # FormatImgPath(t2, j))
    /\ [][\A f \in files \ files' :
             \E i \in Regions : /\ wpc[i] = "cleanup" /\ wpc'[i] = "publish"
                                /\ wfile[i] = <<f>>
                                /\ \A j \in Regions \ {i} : wfile[j] # <<f>>]_vars
    /\ [][\A i \in Regions :
             (wpc[i] = "persist" /\ wpc'[i] = "recognize")
                 => /\ wfile'[i][1] \notin files
                    /\ \A j \in Regions \ {i} : wfile[j] # wfile'[i]]_vars

\* two workers have their files on disk, written in the same second
C17_Witness ==
    \E i, j \in Regions :
        /\ i # j
        /\ wfile[i] # <<>> /\ wfile[j] # <<>>
        /\ wfile[i][1] \in files /\ wfile[j][1] \in files
        /\ wfile[i][1] = FormatImgPath(now, i) /\ wfile[j][1] = FormatImgPath(now, j)

\* C18: each crop is consumed exactly once and yields at most one result: a crop
\* sent on inbound queue i is received only by worker i, worker i publishes only
\* results of index i, and at any time the results of index i published so far
\* are at most as many as the crops sent to worker i so far.
C18_CropConsumedOnce ==
    /\ [](\A i \in Regions :
            /\ \A k \in 1 .. Len(inq[i]) : inq[i][k].region = i
            /\ wimg[i] # <<>> => wimg[i][1].region = i
            /\ npub[i] <= nsent[i]
            /\ npub[i] + Len(inq[i]) + (IF wimg[i] # <<>> THEN 1 ELSE 0) <= nsent[i])
    /\ [][\A k \in 1 .. Len(outq') : k > Len(outq) =>
             \E i \in Regions : /\ wpc[i] = "publish"
                                /\ outq'[k].idx = i
                                /\ outq'[k].src = <<wimg[i][1].call, i>>
                                /\ npub'[i] = npub[i] + 1
                                /\ wimg'[i] = <<>>]_vars

\* a worker has received 2 crops and published the 2 results
C18_Witness ==
    \E i \in Regions : nsent[i] = 2 /\ npub[i] = 2 /\ wpc[i] = "idle"

\* C19: once the OCREngine handle is dropped a worker does not terminate and does
\* not publish anything: its receive fails at once, it logs the error and retries,
\* forever; no worker leaves its loop on the outbound send.
C19_DroppedEngineWorkerLoops ==
    engine = "dropped" => /\ outq = <<>>
                          /\ \A i \in Regions : wcause[i] # "publish"

\* C20: in sequential use, when a call has returned (Ok or Err) and the workers
\* are idle again, the pipeline is drained: no crop is left in an inbound queue
\* and no result in the outbound queue, also when the call returned Err because
\* the send to worker i failed after crops 0 .. i-1 had been sent.
C20_ReturnedCallLeavesPipelineDrained ==
    \A c \in Callers :
        (/\ cpc[c] = "idle"
         /\ cret[c] # "none"
         /\ \A i \in Regions : Dead(i) \/ (wpc[i] = "idle" /\ inq[i] = <<>>))
            => /\ outq = <<>>
               /\ \A i \in Regions : inq[i] = <<>>

-----------------------------------------------------------------------------
(* Normal operation: the catalogue is not empty, every screenshot decodes, no
   worker step fails, the engine is kept, and every thread is scheduled fairly *)

WorkerStep(i) ==
    \/ WorkerStart(i)
    \/ WorkerRecv(i)
    \/ WorkerPersist(i)
    \/ WorkerRecognize(i)
    \/ WorkerCleanup(i)
    \/ WorkerPublish(i)

CallerStep(c) ==
    \/ OcrSend(c)
    \/ OcrRecv(c)

InitLive ==
    /\ InitPipe({Catalog}, [c \in Callers |-> IF c = 1 THEN MaxCalls ELSE 0])
    /\ target = Identity
    /\ MatchIdle
    /\ ColorIdle
    /\ FilterIdle

NextLive ==
    \/ \E c \in Callers : OcrOpen(c)
    \/ \E c \in Callers : CallerStep(c)
    \/ \E i \in Regions : WorkerStep(i)
    \/ Tick

Fairness ==
    /\ \A c \in Callers : WF_vars(CallerStep(c))
    /\ \A i \in Regions : WF_vars(WorkerStep(i))

LiveSpec == InitLive /\ [][NextLive]_vars /\ Fairness

\* some thread of the pipeline can take a step for the running call of c
CanProgress(c) ==
    \/ cpc[c] = "send" /\ ~Dead(ci[c])
    \/ cpc[c] = "recv" /\ outq # <<>>
    \/ \E i \in Regions : wpc[i] \notin {"idle", "dead"} \/ (wpc[i] = "idle" /\ inq[i] # <<>>)

\* C2: under normal operation every call eventually returns Ok: a send is never
\* blocked (the inbound queues are unbounded), and while a call runs some thread
\* can always step (no deadlock between the orchestrator and the workers).
C2_EveryCallReturnsOk ==
    /\ \A c \in Callers : Active(c) ~> (cpc[c] = "idle" /\ cret[c] = "ok")
    /\ [](\A c \in Callers : cpc[c] = "send" => ~Dead(ci[c]))
    /\ [](\A c \in Callers : Active(c) => CanProgress(c))

\* the last call the caller may make has returned Ok with 4 results
C2_Witness ==
    \E c \in Callers : cret[c] = "ok" /\ budget[c] = 0 /\ ccall[c] > 1
                       /\ Len(cout[c]) = NumWorkers

-----------------------------------------------------------------------------
(* Scheduled runs: normal operation in which the workers publish in the order
   `target`, one of the 24 orders, chosen at the start.  Every such run is a
   run of the pipeline: only the moment of a publish is constrained. *)

Orders ==
    {p \in [1 .. NumWorkers -> Regions] : \A j, k \in 1 .. NumWorkers : p[j] = p[k] => j = k}

\* the indices of a list of results, in the order of the list
IndexOrder(rs) == [k \in 1 .. Len(rs) |-> rs[k].idx]

\* worker i is the next to publish in the order `target`
Turn(i) ==
    \E c \in Callers :
        /\ Active(c)
        /\ Len(outq) + Len(cres[c]) < NumWorkers
        /\ target[Len(outq) + Len(cres[c]) + 1] = i

OrderedWorkerStep(i) ==
    \/ WorkerStart(i)
    \/ WorkerRecv(i)
    \/ WorkerPersist(i)
    \/ WorkerRecognize(i)
    \/ WorkerCleanup(i)
    \/ Turn(i) /\ WorkerPublish(i)

InitOrder ==
    /\ InitPipe({Catalog}, [c \in Callers |-> IF c = 1 THEN MaxOrderCalls ELSE 0])
    /\ target \in Orders
    /\ MatchIdle
    /\ ColorIdle
    /\ FilterIdle

NextOrder ==
    \/ \E c \in Callers : OcrOpen(c)
    \/ \E c \in Callers : CallerStep(c)
    \/ \E i \in Regions : OrderedWorkerStep(i)

SpecOrder ==
    /\ InitOrder
    /\ [][NextOrder]_vars
    /\ \A c \in Callers : WF_vars(CallerStep(c))
    /\ \A i \in Regions : WF_vars(OrderedWorkerStep(i))

\* crop i of the running call of c has been sent
Sent(c, i) ==
    \/ \E k \in 1 .. Len(inq[i]) : inq[i][k].call = CallId(c)
    \/ wimg[i] # <<>> /\ wimg[i][1].call = CallId(c)
    \/ \E k \in 1 .. Len(outq) : outq[k].src = <<CallId(c), i>>
    \/ \E k \in 1 .. Len(cres[c]) : cres[c][k].src = <<CallId(c), i>>
    \/ Dead(i)

\* C7: a call sends its crops in region order 0,1,2,3 and completes the 4 sends
\* before its first receive, and it returns the results in the order in which it
\* received them from the outbound queue, unsorted; that order is any of the 24:
\* whatever order the workers publish in, the call returns its results in it.
C7_SendOrderAndArrivalOrder ==
    /\ [](\A c \in Callers :
            cpc[c] = "send" =>
                /\ cres[c] = <<>>
                /\ \A i \in Regions : i < ci[c] => Sent(c, i)
                /\ \A i \in Regions :
                       i >= ci[c] => /\ inq[i] = <<>>
                                     /\ wimg[i] = <<>>
                                     /\ \A k \in 1 .. Len(outq) : outq[k].idx # i)
    /\ [](\A c \in Callers : cpc[c] = "recv" => \A i \in Regions : Sent(c, i))
    /\ [](\A c \in Callers : cret[c] = "ok" => IndexOrder(cout[c]) = target)
    /\ \A c \in Callers : Active(c) ~> (cret[c] = "ok" /\ IndexOrder(cout[c]) = target)

\* a call returned its results in the reverse of the order it sent the crops in
C7_Witness ==
    \E c \in Callers : /\ cret[c] = "ok"
                       /\ IndexOrder(cout[c]) = [k \in 1 .. NumWorkers |-> NumWorkers - k]

-----------------------------------------------------------------------------
(* Two callers share the engine and their calls may overlap (normal operation).
   The callers interleave freely with each other and with the workers; the
   workers are scheduled by index, one schedule the 4 threads may follow. *)

InitOverlap ==
    /\ InitPipe({Catalog}, [c \in Callers |-> MaxOverlapCalls])
    /\ target = Identity
    /\ MatchIdle
    /\ ColorIdle
    /\ FilterIdle

\* worker i has a step to take
WorkerReady(i) ==
    \/ wpc[i] \in {"start", "persist", "recognize", "cleanup", "publish"}
    \/ wpc[i] = "idle" /\ inq[i] # <<>>

\* the lowest worker that can step is the one that does
FirstReady(i) == WorkerReady(i) /\ \A j \in Regions : j < i => ~WorkerReady(j)

NextOverlap ==
    \/ \E c \in Callers : OcrOpen(c)
    \/ \E c \in Callers : CallerStep(c)
    \/ \E i \in Regions : FirstReady(i) /\ WorkerStep(i)

SpecOverlap == InitOverlap /\ [][NextOverlap]_vars

\* C8: when two calls overlap on one engine, results are cross-associated: a call
\* can return Ok with 4 results that are not those of its own 4 crops (two results
\* with the same region index, a result computed from the other call's crop); a
\* call returns such results only if it overlapped another call.
C8_ForeignResultsOnlyWhenOverlapping ==
    \A c \in Callers :
        cret[c] = "ok" =>
            /\ Len(cout[c]) = NumWorkers
            /\ ~OwnFour(c, cout[c]) => covl[c]

\* a call returned Ok with two results of the same region index, one of them
\* computed from a crop of the other caller's call
C8_Witness ==
    \E c \in Callers :
        /\ cret[c] = "ok"
        /\ \E j, k \in 1 .. Len(cout[c]) :
               /\ j # k
               /\ cout[c][j].idx = cout[c][k].idx
               /\ cout[c][j].src[1][1] # c

-----------------------------------------------------------------------------
(* The matcher on its own: find_closest_levenshtein_match applied to a catalogue
   and a raw string drawn from bounded sets *)

\* the catalogues of up to MaxCatalog entries with names of up to MaxLen
\* characters; an entry's id is its place in the catalogue
SmallCatalogs ==
    UNION {{[k \in 1 .. n |-> Item(k, names[k])] : names \in [1 .. n -> StringsUpTo(MaxLen)]}
           : n \in 0 .. MaxCatalog}

\* a name as long as the distance the scan starts from
LongName == [k \in 1 .. INITIAL_LOWEST |-> "a"]

InitMatch ==
    /\ InitPipe({Catalog}, [c \in Callers |-> 0])
    /\ target = Identity
    /\ \/ fc_items \in SmallCatalogs /\ fc_target \in StringsUpTo(MaxLen)
       \/ fc_items = <<Item(1, LongName)>> /\ fc_target = <<>>
    /\ fc_out = None
    /\ fc_pc = "call"
    /\ ColorIdle
    /\ FilterIdle

\* the call returns lowest_item.unwrap().clone()
MatchReturn ==
    /\ fc_pc = "call"
    /\ LET lowest_item == find_closest_levenshtein_match(fc_items, fc_target)
       IN  /\ lowest_item # None
           /\ fc_out' = lowest_item
    /\ fc_pc' = "done"
    /\ UNCHANGED <<fc_items, fc_target>>
    /\ UNCHANGED <<pipeVars, colorVars, filterVars>>

\* lowest_item is None: unwrap() panics
MatchPanic ==
    /\ fc_pc = "call"
    /\ find_closest_levenshtein_match(fc_items, fc_target) = None
    /\ fc_pc' = "panic"
    /\ UNCHANGED <<fc_items, fc_target, fc_out>>
    /\ UNCHANGED <<pipeVars, colorVars, filterVars>>

NextMatch ==
    \/ MatchReturn
    \/ MatchPanic

SpecMatch == InitMatch /\ [][NextMatch]_vars

\* the distance of the raw string to entry k
Distance(k) == levenshtein(fc_target, fc_items[k].item_name)

\* entry k is at minimum distance and no earlier entry is
FirstClosest(k) ==
    /\ \A j \in 1 .. Len(fc_items) : Distance(k) <= Distance(j)
    /\ \A j \in 1 .. (k - 1) : Distance(k) < Distance(j)

\* C9: for every non-empty catalogue and every input string the matcher returns
\* an entry at minimum edit distance, the first such entry in catalogue order (so
\* an input equal to a name returns the first entry of that name).
C9_ReturnsFirstClosest ==
    (fc_pc # "call" /\ fc_items # <<>>) =>
        /\ fc_pc = "done"
        /\ \E k \in 1 .. Len(fc_items) : FirstClosest(k) /\ fc_out = Some(fc_items[k])

-----------------------------------------------------------------------------
(* The colour conversions on their own: to_hsv applied to an 8-bit triple drawn
   from a grid of channel values, to_rgb applied to what it returned *)

\* ChannelLevels values spread over 0 .. 255, both ends included
Channels == {(255 * k) \div (ChannelLevels - 1) : k \in 0 .. (ChannelLevels - 1)}

InitColor ==
    /\ InitPipe({Catalog}, [c \in Callers |-> 0])
    /\ target = Identity
    /\ MatchIdle
    /\ FilterIdle
    /\ hc_rgb \in Channels \X Channels \X Channels
    /\ hc_hsv = <<>>
    /\ hc_back = <<>>
    /\ hc_pc = "hsv"

ColorToHsv ==
    /\ hc_pc = "hsv"
    /\ hc_hsv' = <<to_hsv(hc_rgb[1], hc_rgb[2], hc_rgb[3])>>
    /\ hc_pc' = "rgb"
    /\ UNCHANGED <<hc_rgb, hc_back>>
    /\ UNCHANGED <<pipeVars, matchVars, filterVars>>

ColorToRgb ==
    /\ hc_pc = "rgb"
    /\ hc_back' = <<to_rgb(hc_hsv[1].h, hc_hsv[1].s, hc_hsv[1].v)>>
    /\ hc_pc' = "done"
    /\ UNCHANGED <<hc_rgb, hc_hsv>>
    /\ UNCHANGED <<pipeVars, matchVars, filterVars>>

NextColor ==
    \/ ColorToHsv
    \/ ColorToRgb

SpecColor == InitColor /\ [][NextColor]_vars

\* C13: for all 8-bit triples to_hsv yields a hue in [0, 360), a saturation and
\* a value in [0, 1], and saturation 0 when r = g = b, triples with red maximal
\* and g < b included.
C13_HsvInRange ==
    hc_hsv # <<>> =>
        LET hsv == hc_hsv[1]
        IN  /\ FGe(hsv.h, Whole(0)) /\ FLt(hsv.h, Whole(360))
            /\ FGe(hsv.s, Whole(0)) /\ FGe(Whole(1), hsv.s)
            /\ FGe(hsv.v, Whole(0)) /\ FGe(Whole(1), hsv.v)
            /\ (hc_rgb[1] = hc_rgb[2] /\ hc_rgb[2] = hc_rgb[3]) => hsv.s = Whole(0)

\* black, white, red, green, blue and the Hsv the tests expect of them
PureColours ==
    { <<<<0, 0, 0>>, <<0, 0, 0>>>>,
      <<<<255, 255, 255>>, <<0, 0, 1>>>>,
      <<<<255, 0, 0>>, <<0, 1, 1>>>>,
      <<<<0, 255, 0>>, <<120, 1, 1>>>>,
      <<<<0, 0, 255>>, <<240, 1, 1>>>> }

\* C14: on black, white, red, green and blue to_hsv returns exactly (0,0,0),
\* (0,0,1), (0,1,1), (120,1,1) and (240,1,1), and to_rgb applied to that triple
\* returns the original (r, g, b).
C14_PureColoursRoundTrip ==
    \A pc \in PureColours :
        hc_rgb = pc[1] =>
            /\ hc_hsv # <<>> =>
                   hc_hsv[1] = Hsv(Whole(pc[2][1]), Whole(pc[2][2]), Whole(pc[2][3]))
            /\ hc_back # <<>> => hc_back[1] = hc_rgb

\* green went to (120, 1, 1) and came back
C14_Witness ==
    /\ hc_pc = "done"
    /\ hc_rgb = <<0, 255, 0>>
    /\ hc_hsv[1].h = Whole(120)
    /\ hc_back[1] = <<0, 255, 0>>

-----------------------------------------------------------------------------
(* The region filter on its own: remove_not_text applied to a small bitmap of
   pixels drawn from a palette, and then to its own result *)

\* a text-coloured pixel at full saturation and value, half transparent; a
\* background pixel; a pixel of hue 126, above the upper bound as computed; a
\* transparent pixel of hue 27, on the lower bound
Palette ==
    { <<255, 200, 0, 128>>,
      <<10, 20, 200, 77>>,
      <<0, 150, 15, 255>>,
      <<200, 90, 0, 0>> }

Positions(w, h) == (0 .. (w - 1)) \X (0 .. (h - 1))

\* the dimensions of the bitmaps of at most MaxPixels pixels
Shapes == {wh \in (1 .. MaxPixels) \X (1 .. MaxPixels) : wh[1] * wh[2] <= MaxPixels}

Images ==
    UNION {{Image(wh[1], wh[2], px) : px \in [Positions(wh[1], wh[2]) -> Palette]}
           : wh \in Shapes}

InitFilter ==
    /\ InitPipe({Catalog}, [c \in Callers |-> 0])
    /\ target = Identity
    /\ MatchIdle
    /\ ColorIdle
    /\ rf_img \in Images
    /\ rf_out = <<>>
    /\ rf_again = <<>>
    /\ rf_pc = "first"

\* out = remove_not_text(&img, IMG_MAX_WHITE_DEV)
FilterFirst ==
    /\ rf_pc = "first"
    /\ rf_out' = <<remove_not_text(rf_img, IMG_MAX_WHITE_DEV)>>
    /\ rf_pc' = "second"
    /\ UNCHANGED <<rf_img, rf_again>>
    /\ UNCHANGED <<pipeVars, matchVars, colorVars>>

\* again = remove_not_text(&out, IMG_MAX_WHITE_DEV)
FilterSecond ==
    /\ rf_pc = "second"
    /\ rf_again' = <<remove_not_text(rf_out[1], IMG_MAX_WHITE_DEV)>>
    /\ rf_pc' = "done"
    /\ UNCHANGED <<rf_img, rf_out>>
    /\ UNCHANGED <<pipeVars, matchVars, colorVars>>

NextFilter ==
    \/ FilterFirst
    \/ FilterSecond

SpecFilter == InitFilter /\ [][NextFilter]_vars

\* the Hsv lies in the closed box between the two bounds
InBox(hsv) ==
    /\ FGe(hsv.h, LowerBound[1]) /\ FGe(UpperBound[1], hsv.h)
    /\ FGe(hsv.s, LowerBound[2]) /\ FGe(UpperBound[2], hsv.s)
    /\ FGe(hsv.v, LowerBound[3]) /\ FGe(UpperBound[3], hsv.v)

\* C11: remove_not_text returns an image of the dimensions of its input in which
\* every position, on its own, holds opaque black (0,0,0,255) if the Hsv of the
\* input pixel lies outside the closed box of the bounds (a component on a bound
\* is inside), and the input pixel, alpha included, otherwise; the input image is
\* not modified.
C11_FilterPerPixel ==
    /\ [](rf_out # <<>> =>
            LET out == rf_out[1]
            IN  /\ out.w = rf_img.w /\ out.h = rf_img.h
                /\ DOMAIN out.px = Positions(rf_img.w, rf_img.h)
                /\ \A p \in Positions(rf_img.w, rf_img.h) :
                       LET color == rf_img.px[p]
                       IN  out.px[p] = IF InBox(to_hsv(color[1], color[2], color[3]))
                                       THEN color
                                       ELSE <<0, 0, 0, 255>>)
    /\ [][rf_img' = rf_img]_vars

\* a bitmap of 2 rows and 2 columns was filtered: a half transparent pixel on the
\* saturation and value bounds was kept as it was, another pixel was blacked out
C11_Witness ==
    /\ rf_out # <<>>
    /\ rf_img.w = 2 /\ rf_img.h = 2
    /\ \E p, q \in Positions(2, 2) :
           /\ rf_img.px[p] = <<255, 200, 0, 128>> /\ rf_out[1].px[p] = rf_img.px[p]
           /\ rf_img.px[q] # Black /\ rf_out[1].px[q] = Black

\* C12: filtering the output of the filter yields that output again: a kept
\* pixel is kept unchanged, an opaque black pixel stays opaque black.
C12_FilterIdempotent ==
    rf_pc = "done" => rf_again[1] = rf_out[1]

\* the second pass ran on an image that the first pass had changed, holding a
\* kept pixel and a black one
C12_Witness ==
    /\ rf_pc = "done"
    /\ rf_out[1] # rf_img
    /\ rf_again[1] = rf_out[1]
    /\ \E p, q \in DOMAIN rf_out[1].px :
           rf_out[1].px[p] = Black /\ rf_out[1].px[q] # Black

====
